---- MODULE Spec2Model ----
(***************************************************************************)
(* A model of the MCP load-test client: the sequence execution engine      *)
(* (MCPClient.executeSequence, assignInputMapping), the tool-call wrapper  *)
(* (MCPClient.callTool), the driver (MCPClient.runLoadTest, runAll,        *)
(* runRandomToolCall, connectToServer) of src/src/index.js and the metrics *)
(* aggregator (Metrics.record) of the metrics module.                      *)
(*                                                                         *)
(* JavaScript is single-threaded: an action of the model is the code that  *)
(* runs between two awaits.  The awaits of the client are the tool-channel *)
(* call (mcp.callTool), the inter-call delay (setTimeout) and the          *)
(* connection (mcp.connect / mcp.listTools).                               *)
(*                                                                         *)
(* The client calls metrics.record(tool.name, success, duration, error);   *)
(* record is modelled by the body of Metrics.record applied to those four  *)
(* values, with result and args at their defaults.                         *)
(***************************************************************************)
EXTENDS Integers, Sequences, FiniteSets, TLC

VARIABLES
    pc,               \* where the client is: see the actions below
    config,           \* this.config (LoadTestConfig), fixed at construction
    tools,            \* this.tools
    sequenceContext,  \* this.sequenceContext, the entries of the object
    metrics,          \* the Metrics instance shared by every mode
    i,                \* the loop variable of runLoadTest
    stepIdx,          \* position of executeSequence in the step list (1-based)
    toolIdx,          \* position of runAll in this.tools (1-based)
    mode,             \* the branch runLoadTest took in the current iteration
    call,             \* the callTool activation: tool, params, success, error, result
    calls,            \* the tool channel's view: every callTool request it received
    console,          \* what the driver reported: failed iterations, summaries
    latency,          \* how long the channel takes to answer a call, in ms
    now,              \* Date.now(), in ms since the Metrics instance was made
    summary,          \* what the last getSummary() returned
    main              \* main(): what its try block raised, and the cleanup() calls

vars == <<pc, config, tools, sequenceContext, metrics, i, stepIdx, toolIdx,
          mode, call, calls, console, latency, now, summary, main>>

-----------------------------------------------------------------------------
(* Bounds of the model.                                                    *)

MaxCalls == 2       \* config.numCalls ranges over 0..MaxCalls
MaxLatency == 1     \* a tool call takes 0..MaxLatency ms, fixed per run
MaxRandomCalls == 5 \* config.numCalls of the runs against a channel that is down
MaxRecords == 3     \* record() calls made on a Metrics instance used on its own
MaxTime == 2        \* how far the clock advances around such an instance, in ms

-----------------------------------------------------------------------------
(* JSON-shaped JavaScript values, tagged so that any two can be compared.  *)

Undefined == <<"undefined">>
Null == <<"null">>
Num(n) == <<"num", n>>
Str(s) == <<"str", s>>
Arr(xs) == <<"arr", xs>>
\* An object is the sequence of its <<key, value>> properties, in insertion
\* order (the order of Object.entries).
Obj(es) == <<"obj", es>>
\* A value produced by the faker-based synthesizer for a field.
Synth(key) == <<"synth", key>>

Tag(v) == v[1]
IsObj(v) == Tag(v) = "obj"
IsArr(v) == Tag(v) = "arr"

\* JavaScript truthiness of a value (if (x), x || y, !x).
Truthy(v) ==
    CASE Tag(v) = "undefined" -> FALSE
      [] Tag(v) = "null" -> FALSE
      [] Tag(v) = "num" -> v[2] # 0
      [] Tag(v) = "str" -> v[2] # ""
      [] OTHER -> TRUE

Keys(es) == {es[n][1] : n \in 1..Len(es)}
HasKey(es, k) == k \in Keys(es)
IndexOf(es, k) == CHOOSE n \in 1..Len(es) : es[n][1] = k
\* obj[k]
Get(es, k) == IF HasKey(es, k) THEN es[IndexOf(es, k)][2] ELSE Undefined
\* obj[k] = v : an existing property keeps its place, a new one goes last.
Put(es, k, v) ==
    IF HasKey(es, k)
    THEN [es EXCEPT ![IndexOf(es, k)] = <<k, v>>]
    ELSE Append(es, <<k, v>>)

\* Object.assign(target, source) / { ...target, ...source }
RECURSIVE Assign(_, _)
Assign(target, source) ==
    IF source = <<>> THEN target
    ELSE Assign(Put(target, source[1][1], source[1][2]), Tail(source))

-----------------------------------------------------------------------------
(* JSONPath({ path, json, wrap }) of jsonpath-plus, for root-anchored      *)
(* paths of property names and array indices.  A path expression is kept   *)
(* as the list of its segments after the root: "$" is <<>>, "$.a.b" is     *)
(* <<Key("a"), Key("b")>>, "$.xs[0]" is <<Key("xs"), Idx(0)>>.             *)

Key(k) == <<"key", k>>
Idx(n) == <<"idx", n>>

RECURSIVE Matches(_, _)
Matches(json, segs) ==
    IF segs = <<>> THEN <<json>>
    ELSE LET seg == segs[1] IN
         IF IsObj(json) /\ seg[1] = "key" /\ HasKey(json[2], seg[2])
         THEN Matches(Get(json[2], seg[2]), Tail(segs))
         ELSE IF IsArr(json) /\ seg[1] = "idx" /\ seg[2] + 1 \in 1..Len(json[2])
         THEN Matches(json[2][seg[2] + 1], Tail(segs))
         ELSE <<>>

\* evaluate() returns undefined for a falsy json; with wrap (the default) the
\* result is the array of matches, without it a single match is returned bare
\* and no match is undefined.
JSONPath(segs, json, wrap) ==
    IF ~Truthy(json) THEN Undefined
    ELSE LET ms == Matches(json, segs) IN
         IF wrap THEN Arr(ms)
         ELSE IF Len(ms) = 0 THEN Undefined
         ELSE IF Len(ms) = 1 THEN ms[1]
         ELSE Arr(ms)

-----------------------------------------------------------------------------
(* Mapping values as the engine classifies them (typeof, startsWith('$')). *)

PathExpr(segs) == <<"path", segs>>      \* a string that starts with '$'
BadString(s) == <<"badstr", s>>         \* a string that does not
NestedMap(es) == <<"map", es>>          \* a non-null object of further entries
NotAMapping == <<"other">>              \* a number, a boolean, null

\* target[k] = v for the object reached from root through the keys of prefix
\* (every object on the way was created by target[inputKey] = {}).
RECURSIVE PutAt(_, _, _, _)
PutAt(root, prefix, k, v) ==
    IF prefix = <<>> THEN Put(root, k, v)
    ELSE Put(root, prefix[1],
             Obj(PutAt(Get(root, prefix[1])[2], Tail(prefix), k, v)))

\* The loop of assignInputMapping over Object.entries(mapping).  The target
\* is mutated in place, so what was assigned before a throw stays assigned:
\* the result is the root object as left, and whether the loop completed.
\* sameObject says that outputs is the very object being written (the
\* context-transform call), so each entry reads what the earlier ones wrote.
RECURSIVE assignInputMappingAt(_, _, _, _, _, _)
assignInputMappingAt(root, prefix, mapping, outputs, sameObject, wrap) ==
    IF mapping = <<>> THEN [ok |-> TRUE, root |-> root]
    ELSE LET inputKey == mapping[1][1]
             jsonPathOrObj == mapping[1][2]
             json == IF sameObject THEN Obj(root) ELSE outputs
         IN CASE Tag(jsonPathOrObj) = "path" ->
                   assignInputMappingAt(
                       PutAt(root, prefix, inputKey,
                             JSONPath(jsonPathOrObj[2], json, wrap)),
                       prefix, Tail(mapping), outputs, sameObject, wrap)
              [] Tag(jsonPathOrObj) = "map" ->
                   \* the recursive call passes no args: wrap is the default
                   LET sub == assignInputMappingAt(
                                  PutAt(root, prefix, inputKey, Obj(<<>>)),
                                  Append(prefix, inputKey), jsonPathOrObj[2],
                                  outputs, sameObject, TRUE)
                   IN IF sub.ok
                      THEN assignInputMappingAt(sub.root, prefix, Tail(mapping),
                                                outputs, sameObject, wrap)
                      ELSE sub
              [] OTHER -> [ok |-> FALSE, root |-> root]

\* args = {} leaves wrap at the library default; jsonPathArgs may set it.
DefaultArgs == [wrap |-> TRUE]
assignInputMapping(target, mapping, outputs, args, sameObject) ==
    assignInputMappingAt(target, <<>>, mapping, outputs, sameObject, args.wrap)

-----------------------------------------------------------------------------
(* The metrics aggregator.                                                 *)

\* An Error object, by its message.
Error(msg) == <<"Error", msg>>

EmptyMap == [k \in {} |-> 0]

\* new Metrics()
MetricsInit ==
    [total |-> 0, success |-> 0, failure |-> 0, responseTimes |-> <<>>,
     errors |-> EmptyMap, perTool |-> EmptyMap, details |-> <<>>]

NewToolStats == [total |-> 0, success |-> 0, failure |-> 0, responseTimes |-> <<>>]

\* A record that keeps only the newest entry of the log.
recordKeepsLastDetail(m, toolName, success, duration, error, result, args) ==
    LET perTool0 == IF toolName \in DOMAIN m.perTool
                    THEN m.perTool
                    ELSE m.perTool @@ (toolName :> NewToolStats)
        st1 == [perTool0[toolName] EXCEPT
                   !.total = @ + 1,
                   !.responseTimes = Append(@, duration)]
        st2 == IF success THEN [st1 EXCEPT !.success = @ + 1]
                          ELSE [st1 EXCEPT !.failure = @ + 1]
        errMsg == error[2]
        errors1 == IF ~success /\ Truthy(error)
                   THEN IF errMsg \in DOMAIN m.errors
                        THEN [m.errors EXCEPT ![errMsg] = @ + 1]
                        ELSE m.errors @@ (errMsg :> 1)
                   ELSE m.errors
    IN [m EXCEPT
           !.total = @ + 1,
           !.details = <<[args |-> args, result |-> result, error |-> error]>>,
           !.perTool = [perTool0 EXCEPT ![toolName] = st2],
           !.success = IF success THEN @ + 1 ELSE @,
           !.failure = IF success THEN @ ELSE @ + 1,
           !.errors = errors1]

\* A record that sets the counter of a message to 1 instead of adding to it.
recordOverwritesTally(m, toolName, success, duration, error, result, args) ==
    LET perTool0 == IF toolName \in DOMAIN m.perTool
                    THEN m.perTool
                    ELSE m.perTool @@ (toolName :> NewToolStats)
        st1 == [perTool0[toolName] EXCEPT
                   !.total = @ + 1,
                   !.responseTimes = Append(@, duration)]
        st2 == IF success THEN [st1 EXCEPT !.success = @ + 1]
                          ELSE [st1 EXCEPT !.failure = @ + 1]
        errMsg == error[2]
        errors1 == IF ~success /\ Truthy(error)
                   THEN IF errMsg \in DOMAIN m.errors
                        THEN [m.errors EXCEPT ![errMsg] = 1]
                        ELSE m.errors @@ (errMsg :> 1)
                   ELSE m.errors
    IN [m EXCEPT
           !.total = @ + 1,
           !.details = Append(@, [args |-> args, result |-> result, error |-> error]),
           !.perTool = [perTool0 EXCEPT ![toolName] = st2],
           !.success = IF success THEN @ + 1 ELSE @,
           !.failure = IF success THEN @ ELSE @ + 1,
           !.errors = errors1]

\* A record that leaves the failure count of the tool alone.
recordDropsToolFailure(m, toolName, success, duration, error, result, args) ==
    LET perTool0 == IF toolName \in DOMAIN m.perTool
                    THEN m.perTool
                    ELSE m.perTool @@ (toolName :> NewToolStats)
        st1 == [perTool0[toolName] EXCEPT
                   !.total = @ + 1,
                   !.responseTimes = Append(@, duration)]
        st2 == IF success THEN [st1 EXCEPT !.success = @ + 1]
                          ELSE st1
        errMsg == error[2]
        errors1 == IF ~success /\ Truthy(error)
                   THEN IF errMsg \in DOMAIN m.errors
                        THEN [m.errors EXCEPT ![errMsg] = @ + 1]
                        ELSE m.errors @@ (errMsg :> 1)
                   ELSE m.errors
    IN [m EXCEPT
           !.total = @ + 1,
           !.details = Append(@, [args |-> args, result |-> result, error |-> error]),
           !.perTool = [perTool0 EXCEPT ![toolName] = st2],
           !.success = IF success THEN @ + 1 ELSE @,
           !.failure = IF success THEN @ ELSE @ + 1,
           !.errors = errors1]

\* A record that puts the new call record first in the log (unshift for push).
recordUnshift(m, toolName, success, duration, error, result, args) ==
    LET perTool0 == IF toolName \in DOMAIN m.perTool
                    THEN m.perTool
                    ELSE m.perTool @@ (toolName :> NewToolStats)
        st1 == [perTool0[toolName] EXCEPT
                   !.total = @ + 1,
                   !.responseTimes = Append(@, duration)]
        st2 == IF success THEN [st1 EXCEPT !.success = @ + 1]
                          ELSE [st1 EXCEPT !.failure = @ + 1]
        errMsg == error[2]
        errors1 == IF ~success /\ Truthy(error)
                   THEN IF errMsg \in DOMAIN m.errors
                        THEN [m.errors EXCEPT ![errMsg] = @ + 1]
                        ELSE m.errors @@ (errMsg :> 1)
                   ELSE m.errors
    IN [m EXCEPT
           !.total = @ + 1,
           !.details = <<[args |-> args, result |-> result, error |-> error]>> \o @,
           !.perTool = [perTool0 EXCEPT ![toolName] = st2],
           !.success = IF success THEN @ + 1 ELSE @,
           !.failure = IF success THEN @ ELSE @ + 1,
           !.errors = errors1]

\* Metrics.record, on the metrics state m; the result is the state it leaves.
record(m, toolName, success, duration, error, result, args) ==
    LET perTool0 == IF toolName \in DOMAIN m.perTool
                    THEN m.perTool
                    ELSE m.perTool @@ (toolName :> NewToolStats)
        st1 == [perTool0[toolName] EXCEPT
                   !.total = @ + 1,
                   !.responseTimes = Append(@, duration)]
        st2 == IF success THEN [st1 EXCEPT !.success = @ + 1]
                          ELSE [st1 EXCEPT !.failure = @ + 1]
        \* error.message of an Error object, String(error) of a string
        errMsg == error[2]
        errors1 == IF ~success /\ Truthy(error)
                   THEN IF errMsg \in DOMAIN m.errors
                        THEN [m.errors EXCEPT ![errMsg] = @ + 1]
                        ELSE m.errors @@ (errMsg :> 1)
                   ELSE m.errors
    IN [m EXCEPT
           !.total = @ + 1,
           !.details = Append(@, [args |-> args, result |-> result, error |-> error]),
           !.perTool = [perTool0 EXCEPT ![toolName] = st2],
           !.success = IF success THEN @ + 1 ELSE @,
           !.failure = IF success THEN @ ELSE @ + 1,
           !.errors = errors1]

\* A quotient a / b of getSummary, kept exact as <<numerator, denominator>>
\* in lowest terms (b > 0).
RECURSIVE GCD(_, _)
GCD(a, b) == IF b = 0 THEN a ELSE GCD(b, a % b)
Rat(a, b) == IF a = 0 THEN <<0, 1>> ELSE <<a \div GCD(a, b), b \div GCD(a, b)>>

\* responseTimes.reduce((a, b) => a + b, 0)
RECURSIVE Sum(_)
Sum(xs) == IF xs = <<>> THEN 0 ELSE xs[1] + Sum(Tail(xs))

\* [...responseTimes].sort((a, b) => a - b)
RECURSIVE InsertSorted(_, _)
InsertSorted(x, xs) ==
    IF xs = <<>> THEN <<x>>
    ELSE IF x <= xs[1] THEN <<x>> \o xs
    ELSE <<xs[1]>> \o InsertSorted(x, Tail(xs))

RECURSIVE sorted(_)
sorted(xs) == IF xs = <<>> THEN <<>> ELSE InsertSorted(xs[1], sorted(Tail(xs)))

\* Math.ceil(n * 0.95)
Ceil95(n) == (95 * n + 99) \div 100

\* No getSummary() has returned yet.
NoSummary == [total |-> -1]

\* Every duration record was given, tool by tool, each tool's in the order
\* recorded (the perTool[tool].responseTimes lists).
RECURSIVE TimesOf(_, _)
TimesOf(m, ts) ==
    IF ts = {} THEN <<>>
    ELSE LET tool == CHOOSE x \in ts : TRUE
         IN m.perTool[tool].responseTimes \o TimesOf(m, ts \ {tool})

RecordedDurations(m) == TimesOf(m, DOMAIN m.perTool)

\* A summary whose avg, median and p95 are read off the per-tool lists in
\* the order recorded, without sorting them.
getSummaryInRecordedOrder(m, t) ==
    LET rt == RecordedDurations(m)
        n == Len(rt)
    IN [total |-> m.total, success |-> m.success, failure |-> m.failure,
        avg |-> IF n > 0 THEN Rat(Sum(rt), n) ELSE Rat(0, 1),
        median |-> IF n > 0
                   THEN IF n % 2 = 0
                        THEN Rat(rt[n \div 2] + rt[(n \div 2) + 1], 2)
                        ELSE Rat(rt[(n \div 2) + 1], 1)
                   ELSE Rat(0, 1),
        p95 |-> IF n > 0 THEN Rat(rt[Ceil95(n)], 1) ELSE Rat(0, 1),
        throughput |-> IF t > 0 THEN Rat(m.total * 1000, t) ELSE Rat(0, 1),
        errors |-> m.errors,
        perTool |-> [tool \in DOMAIN m.perTool |->
                        [total |-> m.perTool[tool].total,
                         success |-> m.perTool[tool].success,
                         failure |-> m.perTool[tool].failure,
                         avg |-> Rat(Sum(m.perTool[tool].responseTimes),
                                     Len(m.perTool[tool].responseTimes))]],
        totalTime |-> Rat(t, 1000),
        details |-> m.details]

\* Metrics.getSummary on the metrics state m at time t (ms since startTime).
\* Sequences are indexed from 1: sorted[k] of the code is srt[k + 1].
getSummary(m, t) ==
    LET totalTime == Rat(t, 1000)
        rt == m.responseTimes
        n == Len(rt)
        avg == IF n > 0 THEN Rat(Sum(rt), n) ELSE Rat(0, 1)
        srt == sorted(rt)
        median == IF n > 0
                  THEN IF n % 2 = 0
                       THEN Rat(srt[n \div 2] + srt[(n \div 2) + 1], 2)
                       ELSE Rat(srt[(n \div 2) + 1], 1)
                  ELSE Rat(0, 1)
        p95 == IF n > 0 THEN Rat(srt[Ceil95(n)], 1) ELSE Rat(0, 1)
        perToolStats ==
            [tool \in DOMAIN m.perTool |->
                LET st == m.perTool[tool]
                IN [total |-> st.total, success |-> st.success, failure |-> st.failure,
                    avg |-> IF Len(st.responseTimes) > 0
                            THEN Rat(Sum(st.responseTimes), Len(st.responseTimes))
                            ELSE Rat(0, 1)]]
    IN [total |-> m.total, success |-> m.success, failure |-> m.failure,
        avg |-> avg, median |-> median, p95 |-> p95,
        throughput |-> IF t > 0 THEN Rat(m.total * 1000, t) ELSE Rat(0, 1),
        errors |-> m.errors, perTool |-> perToolStats, totalTime |-> totalTime,
        details |-> m.details]

-----------------------------------------------------------------------------
(* The tool channel (the MCP server behind this.mcp).                      *)

\* A tool descriptor: its name and the properties of its inputSchema, each
\* with the type and the required flag the client reads (prop.required).
Tool(name, properties) == [name |-> name, properties |-> properties]
Prop(type, required) == [type |-> type, required |-> required]

ToolA == Tool("a", << <<"q", Prop("string", TRUE)>>, <<"n", Prop("number", FALSE)>> >>)
ToolB == Tool("b", << <<"id", Prop("number", TRUE)>> >>)

\* What listTools may answer.
ServerTools == { <<>>, <<ToolA>>, <<ToolB>>, <<ToolA, ToolB>> }

\* The texts a tool may answer with, and JSON.parse on them.
TextObject == "{\"a\":1}"
TextNotJSON == "oops"
Texts == {TextObject, TextNotJSON}
TextUser == "{\"u\":{\"id\":1,\"email\":\"a@b.com\"},\"a\":5}"

JSONParse(text) ==
    CASE text = TextObject -> <<"ok", Obj(<< <<"a", Num(1)>> >>)>>
      [] text = TextUser ->
           <<"ok", Obj(<< <<"u", Obj(<< <<"id", Num(1)>>,
                                        <<"email", Str("a@b.com")>> >>)>>,
                          <<"a", Num(5)>> >>)>>
      [] OTHER -> <<"SyntaxError">>

\* mcp.callTool either resolves to a result { content: [{ text }], isError }
\* or rejects with an Error.
Result(isError, content) == <<"result", isError, content>>
Throws(msg) == <<"throws", msg>>
\* A call the channel has not answered yet.
Pending == <<"pending">>

Outcomes ==
    { Result(FALSE, <<text>>) : text \in Texts }
    \cup { Result(TRUE, <<"boom">>), Throws("down") }

\* The answers of a server whose tools return a user record or a text that
\* is not JSON, or whose call is rejected.
UserOutcomes ==
    { Result(FALSE, <<TextUser>>), Result(FALSE, <<TextNotJSON>>), Throws("down") }

-----------------------------------------------------------------------------
(* Sequence steps and configurations.                                      *)

Step(type, toolName, staticInputs, inputMapping, outputMapping, outputType, jsonPathArgs) ==
    [type |-> type, toolName |-> toolName, staticInputs |-> staticInputs,
     inputMapping |-> inputMapping, outputMapping |-> outputMapping,
     outputType |-> outputType, jsonPathArgs |-> jsonPathArgs]

\* An absent optional field is "" (a string) or <<>> (an object): the engine
\* only tests them for truthiness or iterates their entries.
StepA == Step("", "a", <<>>, <<>>, << <<"r", PathExpr(<<>>)>> >>, "", DefaultArgs)
StepAPlain == Step("tool-call", "a", << <<"q", Str("fixed")>> >>, <<>>, <<>>, "json", DefaultArgs)
StepAText == Step("", "a", <<>>, <<>>, << <<"t", PathExpr(<<>>)>> >>, "text", DefaultArgs)
StepB == Step("", "b", <<>>, << <<"id", PathExpr(<<Key("r"), Idx(0), Key("a")>>)>> >>,
              << <<"v", PathExpr(<<Key("a")>>)>> >>, "json", DefaultArgs)
StepUnknown == Step("", "zz", <<>>, <<>>, << <<"z", PathExpr(<<>>)>> >>, "", DefaultArgs)
StepTransform == Step("context-transform", "", <<>>,
                      << <<"x", PathExpr(<<Key("r"), Idx(0)>>)>> >>, <<>>, "",
                      [wrap |-> FALSE])
StepBadInput == Step("", "a", <<>>, << <<"q", BadString("r")>> >>, <<>>, "", DefaultArgs)
StepBadOutput == Step("", "a", <<>>, <<>>,
                      << <<"r", PathExpr(<<>>)>>, <<"w", BadString("a")>> >>, "", DefaultArgs)

\* Steps that pass a user record through the context.
StepUser == Step("", "a", <<>>, <<>>,
                 << <<"u", PathExpr(<<Key("u")>>)>>, <<"a", PathExpr(<<Key("a")>>)>> >>,
                 "json", DefaultArgs)
StepUnwrap == Step("context-transform", "", <<>>,
                   << <<"u", PathExpr(<<Key("u"), Idx(0)>>)>>,
                      <<"a", PathExpr(<<Key("a"), Idx(0)>>)>> >>, <<>>, "",
                   [wrap |-> FALSE])
StepNested == Step("tool-call", "a",
                   << <<"q", Str("fixed")>>, <<"n", Num(7)>> >>,
                   << <<"q", PathExpr(<<Key("a")>>)>>,
                      <<"user", NestedMap(<< <<"id", PathExpr(<<Key("u"), Key("id")>>)>>,
                                             <<"email", PathExpr(<<Key("u"), Key("email")>>)>> >>)>> >>,
                   << <<"a", PathExpr(<<Key("a")>>)>> >>, "json", DefaultArgs)
\* { x: '$.a' } with the default arguments, and a mapping that reads the key
\* it writes.
StepX == Step("context-transform", "", <<>>, << <<"x", PathExpr(<<Key("a")>>)>> >>,
              <<>>, "", DefaultArgs)
StepGrow == Step("context-transform", "", <<>>, << <<"a", PathExpr(<<Key("a")>>)>> >>,
                 <<>>, "", DefaultArgs)
\* Mapping values that are neither a string nor an object.
StepNotAMapping == Step("", "a", <<>>,
                        << <<"n", PathExpr(<<Key("a")>>)>>, <<"q", NotAMapping>> >>,
                        <<>>, "", DefaultArgs)
StepBadOutputValue == Step("", "a", <<>>, <<>>,
                           << <<"u", PathExpr(<<Key("u")>>)>>, <<"w", NotAMapping>> >>,
                           "", DefaultArgs)
StepBadTransform == Step("context-transform", "", <<>>,
                         << <<"x", PathExpr(<<Key("a")>>)>>, <<"y", NotAMapping>> >>,
                         <<>>, "", DefaultArgs)

\* A static object under a key that the input mapping gives a nested map.
StepStaticObject ==
    Step("tool-call", "a",
         << <<"q", Str("fixed")>>,
            <<"user", Obj(<< <<"id", Num(0)>>, <<"role", Str("admin")>> >>)>> >>,
         << <<"user", NestedMap(<< <<"id", PathExpr(<<Key("u"), Key("id")>>)>> >>)>> >>,
         <<>>, "json", DefaultArgs)
\* { a: '$.u', u: '$.a' }: each entry reads a key the other one writes; with
\* the default arguments and with wrap: false.
StepSwap == Step("context-transform", "", <<>>,
                 << <<"a", PathExpr(<<Key("u")>>)>>, <<"u", PathExpr(<<Key("a")>>)>> >>,
                 <<>>, "", DefaultArgs)
StepSwapBare == Step("context-transform", "", <<>>,
                     << <<"a", PathExpr(<<Key("u")>>)>>, <<"u", PathExpr(<<Key("a")>>)>> >>,
                     <<>>, "", [wrap |-> FALSE])

ArgumentSequences ==
    { <<StepUser, StepUnwrap, StepStaticObject, StepB>>,
      <<StepUser, StepUnwrap, StepSwap, StepB>>,
      <<StepUser, StepUnwrap, StepSwapBare, StepB>> }

MappingSequences ==
    { <<StepUser, StepUnwrap, StepNested, StepB>>,
      <<StepUser, StepUnwrap, StepX, StepX>>,
      <<StepUser, StepUnwrap, StepGrow, StepGrow>>,
      <<StepUser, StepNotAMapping, StepUser>>,
      <<StepBadOutputValue, StepUser>>,
      <<StepUser, StepBadTransform, StepUser>> }

Sequences ==
    { <<>>,
      <<StepA, StepUnknown, StepB>>,
      <<StepUnknown, StepAPlain>>,
      <<StepA, StepTransform>>,
      <<StepBadInput, StepA>>,
      <<StepBadOutput, StepAPlain>>,
      <<StepAText, StepB>> }

\* The run modes a configuration can ask for: a sequence (an array, possibly
\* empty, is truthy), runAll, both, or neither.
ModeConfigs ==
    { [hasSequence |-> TRUE, sequence |-> sq, runAll |-> FALSE] : sq \in Sequences }
    \cup { [hasSequence |-> TRUE, sequence |-> <<StepA, StepUnknown, StepB>>, runAll |-> TRUE],
           [hasSequence |-> FALSE, sequence |-> <<>>, runAll |-> TRUE],
           [hasSequence |-> FALSE, sequence |-> <<>>, runAll |-> FALSE] }

\* config.toolNames: absent, or a list of names.
ToolNameConfigs ==
    { [hasToolNames |-> FALSE, toolNames |-> {}],
      [hasToolNames |-> TRUE, toolNames |-> {"a"}] }

Delays == {0, 10}

ConfigsOf(modeConfigs, maxCalls) ==
    { [numCalls |-> n, delayBetweenCalls |-> d,
       hasToolNames |-> tn.hasToolNames, toolNames |-> tn.toolNames,
       hasSequence |-> mc.hasSequence, sequence |-> mc.sequence, runAll |-> mc.runAll,
       randomizeParams |-> rp, paramOverrides |-> po]
      : n \in 0..maxCalls, d \in Delays, tn \in ToolNameConfigs, mc \in modeConfigs,
        rp \in {TRUE}, po \in { ("a" :> << <<"q", Str("override")>> >>) } }

Configs == ConfigsOf(ModeConfigs, MaxCalls)

\* The configurations of sequence mode over the sequences that map a user
\* record.
MappingConfigs ==
    ConfigsOf({ [hasSequence |-> TRUE, sequence |-> sq, runAll |-> FALSE]
                : sq \in MappingSequences }, MaxCalls)

\* The configurations of sequence mode over the sequences that build nested
\* arguments and exchange keys of the store.
ArgumentConfigs ==
    ConfigsOf({ [hasSequence |-> TRUE, sequence |-> sq, runAll |-> FALSE]
                : sq \in ArgumentSequences }, MaxCalls)

\* The configurations of single random-tool mode, with more iterations.
RandomModeConfigs ==
    ConfigsOf({[hasSequence |-> FALSE, sequence |-> <<>>, runAll |-> FALSE]},
              MaxRandomCalls)

-----------------------------------------------------------------------------
(* The client.                                                             *)

NoCall == [tool |-> "", params |-> <<>>, result |-> Undefined]

\* A constructor that leaves an earlier run's entry in the context.
InitWithStaleContext(configs) ==
    /\ pc = "constructed"
    /\ config \in configs
    /\ latency \in 0..MaxLatency
    /\ tools = <<>>
    /\ sequenceContext = << <<"r", Null>> >>
    /\ metrics = MetricsInit
    /\ i = 0
    /\ stepIdx = 0
    /\ toolIdx = 0
    /\ mode = "none"
    /\ call = NoCall
    /\ calls = <<>>
    /\ console = [failed |-> <<>>, summaries |-> 0]
    /\ now = 0
    /\ summary = NoSummary
    /\ main = [raised |-> Null, cleanups |-> 0]

\* new MCPClient({ fakerInstance, serverUrl, config }) and new Metrics()
InitWith(configs) ==
    /\ pc = "constructed"
    /\ config \in configs
    /\ latency \in 0..MaxLatency
    /\ tools = <<>>
    /\ sequenceContext = <<>>
    /\ metrics = MetricsInit
    /\ i = 0
    /\ stepIdx = 0
    /\ toolIdx = 0
    /\ mode = "none"
    /\ call = NoCall
    /\ calls = <<>>
    /\ console = [failed |-> <<>>, summaries |-> 0]
    /\ now = 0
    /\ summary = NoSummary
    /\ main = [raised |-> Null, cleanups |-> 0]

Init == InitWith(Configs)

\* A filter that keeps every listed tool.
FilterToolsKeepsAll(ts, names) == ts

\* this.tools.filter((tool) => this.config.toolNames.includes(tool.name))
RECURSIVE FilterTools(_, _)
FilterTools(ts, names) ==
    IF ts = <<>> THEN <<>>
    ELSE IF ts[1].name \in names
         THEN <<ts[1]>> \o FilterTools(Tail(ts), names)
         ELSE FilterTools(Tail(ts), names)

\* A connectToServer without the final test: an empty tool list is kept.
connectToServerKeepsEmpty ==
    /\ pc = "constructed"
    /\ \/ /\ pc' = "connectFailed"
          /\ main' = [main EXCEPT !.raised = Error("connect")]
          /\ UNCHANGED tools
       \/ \E listed \in ServerTools :
            LET filtered == IF config.hasToolNames
                            THEN FilterTools(listed, config.toolNames)
                            ELSE listed
            IN /\ tools' = filtered
               /\ pc' = "connected"
               /\ main' = main
    /\ UNCHANGED <<config, sequenceContext, metrics, i, stepIdx, toolIdx, mode,
                   call, calls, console, latency,
                   now, summary>>

\* connectToServer: connect and listTools may reject (the error is rethrown);
\* otherwise the listed tools, filtered by config.toolNames, become this.tools
\* and an empty result throws 'No matching tools found'.
connectToServer ==
    /\ pc = "constructed"
    /\ \/ /\ pc' = "connectFailed"
          /\ main' = [main EXCEPT !.raised = Error("connect")]
          /\ UNCHANGED tools
       \/ \E listed \in ServerTools :
            LET filtered == IF config.hasToolNames
                            THEN FilterTools(listed, config.toolNames)
                            ELSE listed
            IN /\ tools' = filtered
               /\ pc' = IF Len(filtered) = 0 THEN "connectFailed" ELSE "connected"
               /\ main' = IF Len(filtered) = 0
                          THEN [main EXCEPT !.raised = Error("No matching tools found")]
                          ELSE main
    /\ UNCHANGED <<config, sequenceContext, metrics, i, stepIdx, toolIdx, mode,
                   call, calls, console, latency,
                   now, summary>>

\* generateValueForField: a faker value chosen by field name, then by type.
generateValueForField(fieldName, prop) == Synth(fieldName)

\* generateRandomParams(schema, mockConfig): one value per schema property.
RECURSIVE generateInto(_, _)
generateInto(params, properties) ==
    IF properties = <<>> THEN params
    ELSE generateInto(Put(params, properties[1][1],
                          generateValueForField(properties[1][1], properties[1][2])),
                      Tail(properties))

generateRandomParams(properties) == generateInto(<<>>, properties)

\* The parameters runAll and runRandomToolCall build for a tool.
RandomParamsFor(tool) ==
    LET generated == IF config.randomizeParams # FALSE
                     THEN generateRandomParams(tool.properties)
                     ELSE <<>>
    IN IF tool.name \in DOMAIN config.paramOverrides
       THEN Assign(generated, config.paramOverrides[tool.name])
       ELSE generated

\* A callTool whose caller does not await it: the request is sent and the
\* caller goes on at once, with no result.
callToolBeginNotAwaited(tool, params) ==
    /\ call' = [tool |-> tool.name, params |-> params, result |-> Undefined]
    /\ calls' = Append(calls, [name |-> tool.name, arguments |-> params,
                                outcome |-> Pending])
    /\ pc' = "called"

\* callTool up to its await: the request goes to the tool channel.
callToolBegin(tool, params) ==
    /\ call' = [tool |-> tool.name, params |-> params, result |-> Undefined]
    /\ calls' = Append(calls, [name |-> tool.name, arguments |-> params,
                                outcome |-> Pending])
    /\ pc' = "inflight"

\* A driver without the catch: the exception leaves runLoadTest.
catchFailedCallRethrows ==
    /\ console' = console
    /\ i' = i
    /\ pc' = "returned"

\* The catch of runLoadTest around one iteration: the error is logged and the
\* loop goes on with the next i.
catchFailedCall ==
    /\ console' = [console EXCEPT !.failed = Append(@, i + 1)]
    /\ i' = i + 1
    /\ pc' = "loop"

\* An iteration that ended without an exception: the loop goes on.
iterationDone ==
    /\ i' = i + 1
    /\ pc' = "loop"
    /\ UNCHANGED console

-----------------------------------------------------------------------------
(* runLoadTest.                                                            *)

\* The entry of runLoadTest: with no tools it returns at once.
runLoadTest ==
    /\ pc \in {"constructed", "connected", "connectFailed"}
    /\ IF Len(tools) = 0
       THEN pc' = "returned"
       ELSE pc' = "loop"
    /\ i' = 0
    /\ UNCHANGED <<config, tools, sequenceContext, metrics, stepIdx, toolIdx, mode,
                   call, calls, console, latency,
                   now, summary, main>>

\* The branches tested in the other order: runAll before the sequence.
selectModeRunAllFirst ==
    IF config.runAll THEN "runAll"
    ELSE IF config.hasSequence THEN "sequence"
    ELSE "random"

\* The mode one iteration runs: if (config.sequence) ... else if (config.runAll)
\* ... else ...
selectMode ==
    IF config.hasSequence THEN "sequence"
    ELSE IF config.runAll THEN "runAll"
    ELSE "random"

\* An executeSequence that starts from a fresh context.
iterationSequenceFreshContext ==
    /\ pc = "loop"
    /\ i < config.numCalls
    /\ selectMode = "sequence"
    /\ mode' = "sequence"
    /\ stepIdx' = 1
    /\ pc' = "seq"
    /\ sequenceContext' = <<>>
    /\ UNCHANGED <<config, tools, metrics, i, toolIdx, call, calls, console, latency,
                   now, summary, main>>

\* The head of the for loop with i < numCalls, for the sequence branch:
\* executeSequence starts at the first step.
iterationSequence ==
    /\ pc = "loop"
    /\ i < config.numCalls
    /\ selectMode = "sequence"
    /\ mode' = "sequence"
    /\ stepIdx' = 1
    /\ pc' = "seq"
    /\ UNCHANGED <<config, tools, sequenceContext, metrics, i, toolIdx, call, calls,
                   console, latency,
                   now, summary, main>>

\* ... for the runAll branch: runAll starts at the first tool.
iterationRunAll ==
    /\ pc = "loop"
    /\ i < config.numCalls
    /\ selectMode = "runAll"
    /\ mode' = "runAll"
    /\ toolIdx' = 1
    /\ pc' = "all"
    /\ UNCHANGED <<config, tools, sequenceContext, metrics, i, stepIdx, call, calls,
                   console, latency,
                   now, summary, main>>

\* ... for the default branch: runRandomToolCall picks a tool at random and
\* calls it.
runRandomToolCall ==
    /\ pc = "loop"
    /\ i < config.numCalls
    /\ selectMode = "random"
    /\ mode' = "random"
    /\ \E n \in 1..Len(tools) : callToolBegin(tools[n], RandomParamsFor(tools[n]))
    /\ UNCHANGED <<config, tools, sequenceContext, metrics, i, stepIdx, toolIdx,
                   console, latency,
                   now, summary, main>>

\* The loop is over: metrics.printSummary() and return.
printSummary ==
    /\ pc = "loop"
    /\ ~(i < config.numCalls)
    /\ summary' = getSummary(metrics, now)
    /\ console' = [console EXCEPT !.summaries = @ + 1]
    /\ pc' = "returned"
    /\ UNCHANGED <<config, tools, sequenceContext, metrics, i, stepIdx, toolIdx, mode,
                   call, calls, latency, now, main>>

\* runAll: the next tool of this.tools is called, or the loop over them ends.
runAll ==
    /\ pc = "all"
    /\ IF toolIdx <= Len(tools)
       THEN /\ callToolBegin(tools[toolIdx], RandomParamsFor(tools[toolIdx]))
            /\ UNCHANGED <<i, console>>
       ELSE /\ iterationDone
            /\ UNCHANGED <<call, calls>>
    /\ UNCHANGED <<config, tools, sequenceContext, metrics, stepIdx, toolIdx, mode,
                   latency,
                   now, summary, main>>

-----------------------------------------------------------------------------
(* callTool after its await.                                               *)

\* result?.content?.[0].text of an isError result, as the thrown message.
\* With no content item the property read itself throws a TypeError.
ErrorOfResult(res) ==
    Error(IF Len(res[3]) > 0 THEN res[3][1]
          ELSE "Cannot read properties of undefined (reading 'text')")

\* record only on the way out of the try: a call that throws is not recorded.
callToolSettleNoFinally(outcome) ==
    LET failedCall == Tag(outcome) = "throws" \/ outcome[2]
    IN [metrics |-> IF failedCall THEN metrics
                    ELSE record(metrics, call.tool, TRUE, latency, Null, Null, <<>>),
        result |-> IF failedCall THEN Undefined ELSE outcome]

\* Without the isError test: a result marked isError counts as a success.
callToolSettleIgnoresIsError(outcome) ==
    LET thrown == Tag(outcome) = "throws"
    IN [metrics |-> record(metrics, call.tool, ~thrown, latency,
                           IF thrown THEN Error(outcome[2]) ELSE Null, Null, <<>>),
        result |-> IF thrown THEN Undefined ELSE outcome]

\* The try / catch / finally of callTool once mcp.callTool has settled:
\* what it records and what it returns to its caller.  It never rethrows.
callToolSettle(outcome) ==
    LET failedCall == Tag(outcome) = "throws" \/ outcome[2]
        error == IF Tag(outcome) = "throws" THEN Error(outcome[2])
                 ELSE IF outcome[2] THEN ErrorOfResult(outcome)
                 ELSE Null
        success == ~failedCall
        duration == latency
    IN [metrics |-> record(metrics, call.tool, success, duration, error, Null, <<>>),
        result |-> IF success THEN outcome ELSE Undefined]

\* A callTool that waits only between iterations of the run, not after the
\* calls of its last iteration.
callToolReturnNoDelayAfterLast(outcomes) ==
    /\ pc = "inflight"
    /\ \E outcome \in outcomes :
         LET settled == callToolSettle(outcome) IN
         /\ calls' = [calls EXCEPT ![Len(calls)].outcome = outcome]
         /\ metrics' = settled.metrics
         /\ call' = [call EXCEPT !.result = settled.result]
    /\ now' = now + latency
    /\ pc' = IF config.delayBetweenCalls # 0 /\ i < config.numCalls - 1
             THEN "delay" ELSE "called"
    /\ UNCHANGED <<config, tools, sequenceContext, i, stepIdx, toolIdx, mode,
                   console, latency, summary, main>>

\* The tool channel answers with one of the given outcomes; callTool records
\* the call, latency ms after it was sent, and starts the delay if one is
\* configured.
callToolReturnWith(outcomes) ==
    /\ pc = "inflight"
    /\ \E outcome \in outcomes :
         LET settled == callToolSettle(outcome) IN
         /\ calls' = [calls EXCEPT ![Len(calls)].outcome = outcome]
         /\ metrics' = settled.metrics
         /\ call' = [call EXCEPT !.result = settled.result]
    /\ now' = now + latency
    /\ pc' = IF config.delayBetweenCalls # 0 THEN "delay" ELSE "called"
    /\ UNCHANGED <<config, tools, sequenceContext, i, stepIdx, toolIdx, mode,
                   console, latency, summary, main>>

callToolReturn == callToolReturnWith(Outcomes)

\* setTimeout(resolve, config.delayBetweenCalls) fires.
delayElapsed ==
    /\ pc = "delay"
    /\ now' = now + config.delayBetweenCalls
    /\ pc' = "called"
    /\ UNCHANGED <<config, tools, sequenceContext, metrics, i, stepIdx, toolIdx, mode,
                   call, calls, console, latency, summary, main>>

\* A runAll that gives up its iteration when a call has failed.
runAllNextStopsOnFailure ==
    /\ pc = "called"
    /\ mode = "runAll"
    /\ IF call.result = Undefined
       THEN /\ catchFailedCall
            /\ UNCHANGED toolIdx
       ELSE /\ toolIdx' = toolIdx + 1
            /\ pc' = "all"
            /\ UNCHANGED <<i, console>>
    /\ call' = NoCall
    /\ UNCHANGED <<config, tools, sequenceContext, metrics, stepIdx, mode, calls,
                   latency, now, summary, main>>

\* runAll resumes after its callTool: on to the next tool.
runAllNext ==
    /\ pc = "called"
    /\ mode = "runAll"
    /\ toolIdx' = toolIdx + 1
    /\ pc' = "all"
    /\ call' = NoCall
    /\ UNCHANGED <<config, tools, sequenceContext, metrics, i, stepIdx, mode, calls,
                   console, latency,
                   now, summary, main>>

\* runRandomToolCall resumes after its callTool: the iteration is over.
runRandomToolCallDone ==
    /\ pc = "called"
    /\ mode = "random"
    /\ iterationDone
    /\ call' = NoCall
    /\ UNCHANGED <<config, tools, sequenceContext, metrics, stepIdx, toolIdx, mode,
                   calls, latency,
                   now, summary, main>>

-----------------------------------------------------------------------------
(* executeSequence.                                                        *)

currentStep == config.sequence[stepIdx]

\* this.tools.find((t) => t.name === step.toolName)
HasTool(name) == \E n \in 1..Len(tools) : tools[n].name = name
FindTool(name) ==
    tools[CHOOSE n \in 1..Len(tools) :
              /\ tools[n].name = name
              /\ \A m \in 1..(n - 1) : tools[m].name # name]

\* The for loop is past the last step: executeSequence resolves.
executeSequenceDone ==
    /\ pc = "seq"
    /\ stepIdx > Len(config.sequence)
    /\ iterationDone
    /\ UNCHANGED <<config, tools, sequenceContext, metrics, stepIdx, toolIdx, mode,
                   call, calls, latency,
                   now, summary, main>>

\* A transform that maps into a new object and makes it the context.
contextTransformStepFreshTarget ==
    /\ pc = "seq"
    /\ stepIdx <= Len(config.sequence)
    /\ currentStep.type = "context-transform"
    /\ LET mapped == assignInputMapping(<<>>, currentStep.inputMapping,
                                        Obj(sequenceContext), currentStep.jsonPathArgs,
                                        FALSE)
       IN /\ sequenceContext' = mapped.root
          /\ IF mapped.ok
             THEN /\ stepIdx' = stepIdx + 1
                  /\ UNCHANGED <<pc, i, console>>
             ELSE /\ catchFailedCall
                  /\ UNCHANGED stepIdx
    /\ UNCHANGED <<config, tools, metrics, toolIdx, mode, call, calls, latency,
                   now, summary, main>>

\* A 'context-transform' step: the context is mapped onto itself.  A throw of
\* assignInputMapping leaves executeSequence and is caught by runLoadTest.
contextTransformStep ==
    /\ pc = "seq"
    /\ stepIdx <= Len(config.sequence)
    /\ currentStep.type = "context-transform"
    /\ LET mapped == assignInputMapping(sequenceContext, currentStep.inputMapping,
                                        Obj(sequenceContext), currentStep.jsonPathArgs,
                                        TRUE)
       IN /\ sequenceContext' = mapped.root
          /\ IF mapped.ok
             THEN /\ stepIdx' = stepIdx + 1
                  /\ UNCHANGED <<pc, i, console>>
             ELSE /\ catchFailedCall
                  /\ UNCHANGED stepIdx
    /\ UNCHANGED <<config, tools, metrics, toolIdx, mode, call, calls, latency,
                   now, summary, main>>

IsToolCallStep(step) == step.type # "context-transform"

\* An unknown tool treated as an error of the sequence: throw, not continue.
toolNotFoundRaises ==
    /\ pc = "seq"
    /\ stepIdx <= Len(config.sequence)
    /\ IsToolCallStep(currentStep)
    /\ ~HasTool(currentStep.toolName)
    /\ catchFailedCall
    /\ UNCHANGED <<config, tools, sequenceContext, metrics, stepIdx, toolIdx, mode, call,
                   calls, latency,
                   now, summary, main>>

\* A tool-call step whose tool is not in this.tools: logged, and the loop
\* continues with the next step.
toolNotFound ==
    /\ pc = "seq"
    /\ stepIdx <= Len(config.sequence)
    /\ IsToolCallStep(currentStep)
    /\ ~HasTool(currentStep.toolName)
    /\ stepIdx' = stepIdx + 1
    /\ UNCHANGED <<pc, config, tools, sequenceContext, metrics, i, toolIdx, mode, call,
                   calls, console, latency,
                   now, summary, main>>

\* Random values for every field that is still undefined, required or not.
RECURSIVE fillUnset(_, _)
fillUnset(params, properties) ==
    IF properties = <<>> THEN params
    ELSE LET key == properties[1][1]
             prop == properties[1][2]
         IN fillUnset(IF Get(params, key) = Undefined
                      THEN Put(params, key, generateValueForField(key, prop))
                      ELSE params,
                      Tail(properties))

\* Random values for every required field, set or not.
RECURSIVE fillRequiredAlways(_, _)
fillRequiredAlways(params, properties) ==
    IF properties = <<>> THEN params
    ELSE LET key == properties[1][1]
             prop == properties[1][2]
         IN fillRequiredAlways(IF prop.required
                               THEN Put(params, key, generateValueForField(key, prop))
                               ELSE params,
                               Tail(properties))

\* Random values for the required fields that are still undefined.
RECURSIVE fillRequired(_, _)
fillRequired(params, properties) ==
    IF properties = <<>> THEN params
    ELSE LET key == properties[1][1]
             prop == properties[1][2]
         IN fillRequired(IF Get(params, key) = Undefined /\ prop.required
                         THEN Put(params, key, generateValueForField(key, prop))
                         ELSE params,
                         Tail(properties))

\* The input parameters of a tool-call step: the static inputs, then the
\* mapped ones, then the generated ones.  ok is FALSE when the mapping throws.
buildParams(step, tool) ==
    LET static == Assign(<<>>, step.staticInputs)
        mapped == assignInputMapping(static, step.inputMapping, Obj(sequenceContext),
                                     DefaultArgs, FALSE)
    IN [ok |-> mapped.ok, params |-> fillRequired(mapped.root, tool.properties)]

\* A tool-call step that empties the context store when its arguments
\* cannot be built.
toolCallStepDiscardsContext ==
    /\ pc = "seq"
    /\ stepIdx <= Len(config.sequence)
    /\ IsToolCallStep(currentStep)
    /\ HasTool(currentStep.toolName)
    /\ LET tool == FindTool(currentStep.toolName)
           built == buildParams(currentStep, tool)
       IN IF built.ok
          THEN /\ callToolBegin(tool, built.params)
               /\ UNCHANGED <<i, console, sequenceContext>>
          ELSE /\ catchFailedCall
               /\ sequenceContext' = <<>>
               /\ UNCHANGED <<call, calls>>
    /\ UNCHANGED <<config, tools, metrics, stepIdx, toolIdx, mode, latency, now,
                   summary, main>>

\* A tool-call step with a known tool, up to the await of callTool.
toolCallStep ==
    /\ pc = "seq"
    /\ stepIdx <= Len(config.sequence)
    /\ IsToolCallStep(currentStep)
    /\ HasTool(currentStep.toolName)
    /\ LET tool == FindTool(currentStep.toolName)
           built == buildParams(currentStep, tool)
       IN IF built.ok
          THEN /\ callToolBegin(tool, built.params)
               /\ UNCHANGED <<i, console>>
          ELSE /\ catchFailedCall
               /\ UNCHANGED <<call, calls>>
    /\ UNCHANGED <<config, tools, sequenceContext, metrics, stepIdx, toolIdx, mode,
                   latency,
                   now, summary, main>>

\* result?.content?.[0]?.text
FirstText(result) ==
    IF Tag(result) = "result" /\ Len(result[3]) > 0 THEN Str(result[3][1])
    ELSE Undefined

\* The output a step stores: the first text, parsed when the output type is
\* json and the text parses; a text that does not parse is kept as it is.
outputToStore(step, result) ==
    LET outputType == IF step.outputType # "" THEN step.outputType ELSE "json"
        text == FirstText(result)
    IN IF outputType = "json" /\ Truthy(text)
       THEN LET parsed == JSONParse(text[2])
            IN IF parsed[1] = "ok" THEN parsed[2] ELSE text
       ELSE text

\* An output mapping that stores a string not starting with '$' as the value.
RECURSIVE assignOutputMappingStoresLiteral(_, _, _)
assignOutputMappingStoresLiteral(context, mapping, output) ==
    IF mapping = <<>> THEN [ok |-> TRUE, root |-> context]
    ELSE LET key == mapping[1][1]
             path == mapping[1][2]
         IN IF Tag(path) = "badstr"
            THEN assignOutputMappingStoresLiteral(Put(context, key, Str(path[2])),
                                                  Tail(mapping), output)
            ELSE IF Tag(path) # "path"
            THEN [ok |-> FALSE, root |-> context]
            ELSE assignOutputMappingStoresLiteral(
                     Put(context, key, JSONPath(path[2], output, TRUE)),
                     Tail(mapping), output)

\* An output mapping that writes only the keys the context does not have yet.
RECURSIVE assignOutputMappingKeepsFirst(_, _, _)
assignOutputMappingKeepsFirst(context, mapping, output) ==
    IF mapping = <<>> THEN [ok |-> TRUE, root |-> context]
    ELSE LET key == mapping[1][1]
             path == mapping[1][2]
         IN IF Tag(path) # "path"
            THEN [ok |-> FALSE, root |-> context]
            ELSE assignOutputMappingKeepsFirst(
                     IF HasKey(context, key) THEN context
                     ELSE Put(context, key, JSONPath(path[2], output, TRUE)),
                     Tail(mapping), output)

\* The loop over Object.entries(step.outputMapping): every path must be a
\* string starting with '$'; what was written before a throw stays written.
RECURSIVE assignOutputMapping(_, _, _)
assignOutputMapping(context, mapping, output) ==
    IF mapping = <<>> THEN [ok |-> TRUE, root |-> context]
    ELSE LET key == mapping[1][1]
             path == mapping[1][2]
         IN IF Tag(path) # "path"
            THEN [ok |-> FALSE, root |-> context]
            ELSE assignOutputMapping(Put(context, key, JSONPath(path[2], output, TRUE)),
                                     Tail(mapping), output)

\* executeSequence resumes after its callTool: the output is parsed and
\* mapped into the context; a throw is rethrown to runLoadTest.
storeOutput ==
    /\ pc = "called"
    /\ mode = "sequence"
    /\ LET stored == assignOutputMapping(sequenceContext, currentStep.outputMapping,
                                         outputToStore(currentStep, call.result))
       IN /\ sequenceContext' = stored.root
          /\ IF stored.ok
             THEN /\ stepIdx' = stepIdx + 1
                  /\ pc' = "seq"
                  /\ UNCHANGED <<i, console>>
             ELSE /\ catchFailedCall
                  /\ UNCHANGED stepIdx
    /\ call' = NoCall
    /\ UNCHANGED <<config, tools, metrics, toolIdx, mode, calls, latency,
                   now, summary, main>>

-----------------------------------------------------------------------------

Next ==
    \/ connectToServer
    \/ runLoadTest
    \/ iterationSequence
    \/ iterationRunAll
    \/ runRandomToolCall
    \/ printSummary
    \/ runAll
    \/ callToolReturn
    \/ delayElapsed
    \/ runAllNext
    \/ runRandomToolCallDone
    \/ executeSequenceDone
    \/ contextTransformStep
    \/ toolNotFound
    \/ toolCallStep
    \/ storeOutput

Spec == Init /\ [][Next]_vars

\* The runs of single random-tool mode against a tool channel that rejects
\* every call.
callToolThrows == callToolReturnWith({Throws("down")})

InitRandomMode == InitWith(RandomModeConfigs)

NextChannelDown ==
    \/ connectToServer
    \/ runLoadTest
    \/ runRandomToolCall
    \/ printSummary
    \/ callToolThrows
    \/ delayElapsed
    \/ runRandomToolCallDone

SpecChannelDown == InitRandomMode /\ [][NextChannelDown]_vars

\* The runs of sequence mode over the mapping sequences, against a server
\* that answers with user records.
callToolAnswers == callToolReturnWith(UserOutcomes)

InitMappings == InitWith(MappingConfigs)

NextMappings ==
    \/ connectToServer
    \/ runLoadTest
    \/ iterationSequence
    \/ printSummary
    \/ callToolAnswers
    \/ delayElapsed
    \/ executeSequenceDone
    \/ contextTransformStep
    \/ toolNotFound
    \/ toolCallStep
    \/ storeOutput

SpecMappings == InitMappings /\ [][NextMappings]_vars

\* The runs of sequence mode over the argument sequences, against the same
\* server.
InitArguments == InitWith(ArgumentConfigs)

SpecArguments == InitArguments /\ [][NextMappings]_vars

\* main(): connectToServer and runLoadTest in a try block whose finally calls
\* cleanup.  runLoadTest is awaited only when connectToServer has returned.
mainRunLoadTest ==
    /\ pc = "connected"
    /\ runLoadTest

\* A main without the finally: cleanup follows runLoadTest only.
cleanupOnlyAfterRun ==
    /\ pc = "returned"
    /\ main' = [main EXCEPT !.cleanups = @ + 1]
    /\ pc' = "exited"
    /\ UNCHANGED <<config, tools, sequenceContext, metrics, i, stepIdx, toolIdx, mode,
                   call, calls, console, latency, now, summary>>

\* The finally block of main: the try block was left, by the exception of
\* connectToServer or by the return of runLoadTest; mcpClient.cleanup() closes
\* the connection and main ends (an exception of the try block leaves main).
cleanup ==
    /\ pc \in {"connectFailed", "returned"}
    /\ main' = [main EXCEPT !.cleanups = @ + 1]
    /\ pc' = "exited"
    /\ UNCHANGED <<config, tools, sequenceContext, metrics, i, stepIdx, toolIdx, mode,
                   call, calls, console, latency, now, summary>>

NextMain ==
    \/ connectToServer
    \/ mainRunLoadTest
    \/ iterationSequence
    \/ iterationRunAll
    \/ runRandomToolCall
    \/ printSummary
    \/ runAll
    \/ callToolReturn
    \/ delayElapsed
    \/ runAllNext
    \/ runRandomToolCallDone
    \/ executeSequenceDone
    \/ contextTransformStep
    \/ toolNotFound
    \/ toolCallStep
    \/ storeOutput
    \/ cleanup

\* The finally block runs as soon as the try block is left.
SpecMain == Init /\ [][NextMain]_vars /\ WF_vars(cleanup)

\* A Metrics instance used on its own: record and getSummary are called in
\* any order while the clock runs, and the client sends nothing.
IdleConfigs ==
    { c \in ConfigsOf({[hasSequence |-> FALSE, sequence |-> <<>>, runAll |-> FALSE]}, 0)
        : c.delayBetweenCalls = 0 /\ ~c.hasToolNames }

\* The durations (ms) record is given.
Durations == {100, 200}

\* The (success, error) pairs callTool passes to record.
RecordOutcomes == { <<TRUE, Null>>, <<FALSE, Error("boom")>> }

InitMetrics == InitWith(IdleConfigs) /\ latency = 0

\* metrics.record(toolName, success, duration, error)
recordCall ==
    /\ metrics.total < MaxRecords
    /\ \E toolName \in {"a", "b"}, duration \in Durations, o \in RecordOutcomes :
         metrics' = record(metrics, toolName, o[1], duration, o[2], Null, <<>>)
    /\ UNCHANGED <<pc, config, tools, sequenceContext, i, stepIdx, toolIdx, mode,
                   call, calls, console, latency, now, summary, main>>

\* Date.now() moves on by a millisecond.
tick ==
    /\ now < MaxTime
    /\ now' = now + 1
    /\ UNCHANGED <<pc, config, tools, sequenceContext, metrics, i, stepIdx, toolIdx,
                   mode, call, calls, console, latency, summary, main>>

\* A getSummary that sorts the per-tool response times in place.
getSummaryCallSortsInPlace ==
    /\ summary' = getSummary(metrics, now)
    /\ metrics' = [metrics EXCEPT !.perTool =
                      [tool \in DOMAIN @ |->
                          [@[tool] EXCEPT !.responseTimes = sorted(@)]]]
    /\ UNCHANGED <<pc, config, tools, sequenceContext, i, stepIdx, toolIdx, mode,
                   call, calls, console, latency, now, main>>

\* A getSummary that hands out the detail log and empties it.
getSummaryCallDrains ==
    /\ summary' = getSummary(metrics, now)
    /\ metrics' = [metrics EXCEPT !.details = <<>>]
    /\ UNCHANGED <<pc, config, tools, sequenceContext, i, stepIdx, toolIdx, mode,
                   call, calls, console, latency, now, main>>

\* metrics.getSummary()
getSummaryCall ==
    /\ summary' = getSummary(metrics, now)
    /\ UNCHANGED <<pc, config, tools, sequenceContext, metrics, i, stepIdx, toolIdx,
                   mode, call, calls, console, latency, now, main>>

NextMetrics ==
    \/ recordCall
    \/ tick
    \/ getSummaryCall

SpecMetrics == InitMetrics /\ [][NextMetrics]_vars

-----------------------------------------------------------------------------
(* Properties of the sequence engine, the tool-call wrapper and the driver. *)

\* The names of the requests the channel has received, in order.
CallNames == [n \in 1..Len(calls) |-> calls[n].name]

\* The last n elements of a sequence.
LastN(sq, n) == SubSeq(sq, Len(sq) - n + 1, Len(sq))

\* executeSequence is at a tool-call step whose tool is not in this.tools.
AtUnknownToolStep ==
    /\ pc = "seq"
    /\ stepIdx <= Len(config.sequence)
    /\ IsToolCallStep(currentStep)
    /\ ~HasTool(currentStep.toolName)

\* executeSequence resumes after a callTool that failed (it returned nothing).
AfterFailedStepCall ==
    /\ pc = "called"
    /\ mode = "sequence"
    /\ Tag(call.result) = "undefined"

\* runLoadTest caught an exception of the current iteration and went on.
IterationRaised ==
    /\ console'.failed = Append(console.failed, i + 1)
    /\ pc' = "loop"

\* C1: in executeSequence a tool call that throws or returns isError is fatal
\* to the sequence: when executeSequence resumes after the failed call it
\* raises to its caller, without writing the context store and without going
\* on to a later step.
C1_FailedCallAbortsSequence ==
    [][AfterFailedStepCall =>
          /\ IterationRaised
          /\ sequenceContext' = sequenceContext]_vars

\* The tool names of the tool-call steps before position k whose tool is known.
RECURSIVE KnownNamesBefore(_)
KnownNamesBefore(k) ==
    IF k <= 1 THEN <<>>
    ELSE LET step == config.sequence[k - 1]
         IN IF IsToolCallStep(step) /\ HasTool(step.toolName)
            THEN Append(KnownNamesBefore(k - 1), step.toolName)
            ELSE KnownNamesBefore(k - 1)

\* The requests of the current executeSequence are those of the known
\* tool-call steps it has passed, one each and in step order.
PassedStepsWereCalled ==
    pc = "seq" =>
        LET names == KnownNamesBefore(stepIdx)
        IN /\ Len(calls) >= Len(names)
           /\ LastN(CallNames, Len(names)) = names

\* C2: a tool-call step whose toolName matches no known tool is not fatal:
\* the step is left without a request to the tool channel and without an
\* exception, the engine moves to the next step, and every known tool-call
\* step, before or after the unknown one, sends its request in step order.
C2_UnknownToolIsSkipped ==
    /\ []PassedStepsWereCalled
    /\ [][AtUnknownToolStep =>
             /\ pc' = "seq"
             /\ stepIdx' = stepIdx + 1
             /\ calls' = calls
             /\ i' = i
             /\ console' = console]_vars

\* The documented case: the third step of a sequence with an unknown second step
\* has been called, after the first.
C2_Witness ==
    /\ pc = "seq"
    /\ config.sequence = <<StepA, StepUnknown, StepB>>
    /\ stepIdx = 4
    /\ Len(calls) >= 2
    /\ LastN(CallNames, 2) = <<"a", "b">>

FailureOf(m, toolName) ==
    IF toolName \in DOMAIN m.perTool THEN m.perTool[toolName].failure ELSE 0

\* C3: a step skipped for an unknown tool name still calls record once with
\* success = false under the step's tool name: perTool[name].failure, failure
\* and total each grow by exactly 1.
C3_UnknownToolIsRecorded ==
    [][AtUnknownToolStep =>
          /\ metrics'.total = metrics.total + 1
          /\ metrics'.failure = metrics.failure + 1
          /\ FailureOf(metrics', currentStep.toolName)
                 = FailureOf(metrics, currentStep.toolName) + 1]_vars

\* How many requests the channel received for a tool, and how many of them
\* it has answered.
Requests(toolName) == {n \in 1..Len(calls) : calls[n].name = toolName}
Awaited == IF pc = "inflight" THEN 1 ELSE 0
AwaitedFor(toolName) == IF pc = "inflight" /\ call.tool = toolName THEN 1 ELSE 0

TotalOf(m, toolName) ==
    IF toolName \in DOMAIN m.perTool THEN m.perTool[toolName].total ELSE 0

\* C4: every request callTool sends to the tool channel is followed by
\* exactly one record for that tool, however the request ends: whenever no
\* request is awaited the records are as many as the requests, in total, in
\* the call log and per tool, and while one is awaited they are one fewer.
C4_OneRecordPerCall ==
    /\ metrics.total = Len(calls) - Awaited
    /\ Len(metrics.details) = Len(calls) - Awaited
    /\ metrics.success + metrics.failure = Len(calls) - Awaited
    /\ \A toolName \in {"a", "b", "zz"} :
           TotalOf(metrics, toolName)
               = Cardinality(Requests(toolName)) - AwaitedFor(toolName)

\* A run in which the channel resolved, returned isError and threw, each at
\* least once, and all three calls are recorded.
C4_Witness ==
    /\ pc = "returned"
    /\ \E k, m, n \in 1..Len(calls) :
           /\ Tag(calls[k].outcome) = "throws"
           /\ Tag(calls[m].outcome) = "result" /\ calls[m].outcome[2]
           /\ Tag(calls[n].outcome) = "result" /\ ~calls[n].outcome[2]
    /\ metrics.total = Len(calls)

ErrorsOf(m, msg) == IF msg \in DOMAIN m.errors THEN m.errors[msg] ELSE 0

\* The answer the channel gave to the request callTool was awaiting.
LastOutcome == calls'[Len(calls')].outcome

\* C5: a result with isError == true is handled like a thrown failure: the
\* call is recorded with success = false (failure and perTool failure grow by
\* 1, success does not), the errors tally grows by 1 under the text of the
\* first content item, and callTool hands no result to its caller.
C5_IsErrorIsAFailure ==
    [][(pc = "inflight" /\ pc' # "inflight"
            /\ Tag(LastOutcome) = "result" /\ LastOutcome[2]) =>
          /\ metrics'.failure = metrics.failure + 1
          /\ metrics'.success = metrics.success
          /\ FailureOf(metrics', call.tool) = FailureOf(metrics, call.tool) + 1
          /\ ErrorsOf(metrics', LastOutcome[3][1])
                 = ErrorsOf(metrics, LastOutcome[3][1]) + 1
          /\ metrics'.details[Len(metrics'.details)].error = Error(LastOutcome[3][1])
          /\ call'.result = Undefined]_vars

\* The documented case: one call answered { isError: true, content: [{ text:
\* "boom" }] } leaves failure == 1 and errors == { boom: 1 }.
C5_Witness ==
    /\ Len(calls) = 1
    /\ calls[1].outcome = Result(TRUE, <<"boom">>)
    /\ metrics.failure = 1
    /\ metrics.errors = ("boom" :> 1)

\* executeSequence resumes after a call of a json step whose first text does
\* not parse as JSON.
AfterUnparsableOutput ==
    /\ pc = "called"
    /\ mode = "sequence"
    /\ currentStep.outputType \in {"", "json"}
    /\ Truthy(FirstText(call.result))
    /\ JSONParse(FirstText(call.result)[2])[1] # "ok"

\* C6: for a step of output type json, a first text that is not valid JSON
\* fails the step fatally: the parse error leaves executeSequence, the
\* remaining steps are not run and the raw text is not written to the
\* context store.
C6_ParseFailureIsFatal ==
    [][AfterUnparsableOutput =>
          /\ IterationRaised
          /\ sequenceContext' = sequenceContext]_vars

\* The iterations runLoadTest has been through never exceed numCalls, and
\* once it has returned from the loop they are exactly numCalls.
AllIterationsAttempted ==
    /\ i <= config.numCalls
    /\ (pc = "returned" /\ Len(tools) > 0) => i = config.numCalls

\* C7: runLoadTest attempts exactly numCalls iterations (the loop is entered
\* when there are tools): an exception raised in an iteration is caught, i
\* moves on by one and the loop goes on; the loop is left only at its head
\* with all iterations done; and an iteration of sequence mode, also the one
\* after an aborted iteration, starts executeSequence at the first step.
C7_EveryIterationIsAttempted ==
    /\ []AllIterationsAttempted
    /\ [][/\ Len(console'.failed) > Len(console.failed) =>
                 /\ console'.failed = Append(console.failed, i + 1)
                 /\ i < config.numCalls
                 /\ i' = i + 1
                 /\ pc' = "loop"
          /\ (pc' = "returned" /\ pc # "returned" /\ Len(tools) > 0) =>
                 /\ pc = "loop"
                 /\ i = config.numCalls
          /\ (pc = "loop" /\ i < config.numCalls /\ config.hasSequence) =>
                 /\ pc' = "seq"
                 /\ stepIdx' = 1]_vars

\* The first iteration was aborted by an exception and the second one is at
\* the first step of the sequence.
C7_Witness ==
    /\ console.failed = <<1>>
    /\ i = 1
    /\ pc = "seq"
    /\ stepIdx = 1

\* C8: in single random-tool mode with numCalls = N, tools to call and a
\* channel that throws on every call, runLoadTest does not raise (no
\* iteration even reaches its catch and the run ends with the summary) and
\* leaves total == N, success == 0 and failure == N.
C8_ChannelDownCountsEveryCall ==
    /\ console.failed = <<>>
    /\ (pc = "returned" /\ Len(tools) > 0) =>
           /\ metrics.total = config.numCalls
           /\ metrics.success = 0
           /\ metrics.failure = config.numCalls
           /\ console.summaries = 1

\* The documented case, N = 5.
C8_Witness ==
    /\ pc = "returned"
    /\ config.numCalls = 5
    /\ Len(calls) = 5
    /\ \A n \in 1..5 : Tag(calls[n].outcome) = "throws"
    /\ metrics.total = 5
    /\ metrics.failure = 5

\* C9: every call of runLoadTest ends by producing the final summary exactly
\* once, after the last iteration and not before, also when every call failed
\* and when the tool set is empty.
C9_SummaryOnEveryReturn ==
    /\ pc = "returned" => console.summaries = 1
    /\ pc # "returned" => console.summaries = 0

\* C10: each iteration runs exactly one mode: sequence mode if a step list is
\* configured, otherwise run-all mode if runAll is set, otherwise single
\* random-tool mode; with both a sequence and runAll, run-all never runs.
C10_ModePrecedence ==
    /\ [](/\ config.hasSequence => (mode \in {"none", "sequence"} /\ toolIdx = 0)
          /\ (~config.hasSequence /\ config.runAll) => mode \in {"none", "runAll"}
          /\ (~config.hasSequence /\ ~config.runAll) => mode \in {"none", "random"}
          /\ pc \in {"seq"} => mode = "sequence"
          /\ pc \in {"all"} => mode = "runAll")
    /\ [][(pc = "loop" /\ i < config.numCalls) =>
             /\ config.hasSequence => pc' = "seq"
             /\ (~config.hasSequence /\ config.runAll) => pc' = "all"
             /\ (~config.hasSequence /\ ~config.runAll) =>
                    (pc' = "inflight" /\ Len(calls') = Len(calls) + 1)]_vars

\* A finished run of a configuration with both a sequence and runAll, whose
\* iterations called the tools of the sequence.
C10_Witness ==
    /\ config.hasSequence
    /\ config.runAll
    /\ pc = "returned"
    /\ i = config.numCalls
    /\ i > 0
    /\ mode = "sequence"
    /\ Len(calls) > 0

\* executeSequence has just been invoked and is before its first step.
AtSequenceStart ==
    /\ pc = "seq"
    /\ stepIdx = 1

AtTransformStep ==
    /\ pc = "seq"
    /\ stepIdx <= Len(config.sequence)
    /\ currentStep.type = "context-transform"

\* C11 as stated: the context store is empty at the start of every
\* executeSequence invocation, so that no key written by one invocation is
\* visible to a later invocation on the same client.
C11_StoreEmptyAtEverySequenceStart ==
    AtSequenceStart => sequenceContext = <<>>

\* C11, amended: the context store is created empty once, by the constructor:
\* it is empty until the first executeSequence invocation has started, and
\* every later invocation starts with the store exactly as the invocation
\* before it left it.
C11_StoreCreatedOnce ==
    /\ []((i = 0 /\ (AtSequenceStart
                        \/ pc \in {"constructed", "connected", "connectFailed", "loop"}))
              => sequenceContext = <<>>)
    /\ [][(pc = "loop" /\ pc' = "seq") => sequenceContext' = sequenceContext]_vars

\* The second invocation starts with the key the first one wrote.
C11_Witness ==
    /\ AtSequenceStart
    /\ i = 1
    /\ config.sequence = <<StepA, StepUnknown, StepB>>
    /\ HasKey(sequenceContext, "r")

\* C12: in sequence mode the context store is not reset between the
\* iterations of runLoadTest and never cleared: no step of the run removes a
\* key, nothing between the end of one iteration and the start of the next
\* changes the store, and the only code that changes it is the output mapping
\* of a tool-call step and a context-transform step.
C12_StoreSurvivesIterations ==
    [][/\ Keys(sequenceContext) \subseteq Keys(sequenceContext')
       /\ pc = "loop" => sequenceContext' = sequenceContext
       /\ sequenceContext' # sequenceContext =>
              \/ pc = "called" /\ mode = "sequence"
              \/ AtTransformStep]_vars

\* The second iteration of a sequence starts with the value the first one
\* stored under r.
C12_Witness ==
    /\ AtSequenceStart
    /\ i = 1
    /\ config.sequence = <<StepA, StepTransform>>
    /\ Get(sequenceContext, "r") = Arr(<<Obj(<< <<"a", Num(1)>> >>)>>)
    /\ Get(sequenceContext, "x") = Obj(<< <<"a", Num(1)>> >>)

\* A tool-call step sends its request: the arguments the channel receives.
StepCallSent ==
    /\ pc = "seq"
    /\ pc' = "inflight"

SentArguments == calls'[Len(calls')].arguments

\* The schema properties of a tool that are marked required.
RequiredKeys(tool) ==
    {tool.properties[n][1] : n \in {m \in 1..Len(tool.properties) :
                                        tool.properties[m][2].required}}

\* The user record of TextUser, as a value.
UserRecord == Obj(<< <<"id", Num(1)>>, <<"email", Str("a@b.com")>> >>)

\* C13: in the argument object a tool-call step sends, a key named in
\* inputMapping holds what the mapping resolves to against the context store
\* (the matches of its path, or an object with the keys of a nested mapping),
\* also when staticInputs names the key; a key named only in staticInputs
\* holds the static value; every other key is a required schema field holding
\* a synthesized value; no static or mapped key holds a synthesized value.
C13_StaticAndMappedTakePrecedence ==
    [][StepCallSent =>
          LET step == currentStep
              staticKeys == Keys(step.staticInputs)
              mappedKeys == Keys(step.inputMapping)
          IN /\ \A n \in 1..Len(step.inputMapping) :
                    LET k == step.inputMapping[n][1]
                        v == step.inputMapping[n][2]
                    IN IF Tag(v) = "path"
                       THEN Get(SentArguments, k)
                                = Arr(Matches(Obj(sequenceContext), v[2]))
                       ELSE /\ IsObj(Get(SentArguments, k))
                            /\ Keys(Get(SentArguments, k)[2]) = Keys(v[2])
             /\ \A k \in staticKeys \ mappedKeys :
                    Get(SentArguments, k) = Get(step.staticInputs, k)
             /\ \A k \in Keys(SentArguments) \ (staticKeys \cup mappedKeys) :
                    /\ Get(SentArguments, k) = Synth(k)
                    /\ k \in RequiredKeys(FindTool(step.toolName))
             /\ \A k \in staticKeys \cup mappedKeys :
                    Tag(Get(SentArguments, k)) # "synth"]_vars

\* A request whose required field q is named by staticInputs and by
\* inputMapping and holds the mapped value, and whose n holds the static one.
C13_Witness ==
    /\ pc = "inflight"
    /\ currentStep = StepNested
    /\ Get(call.params, "q") = Arr(<<Num(5)>>)
    /\ Get(call.params, "n") = Num(7)
    /\ Keys(call.params) = {"q", "n", "user"}

\* executeSequence resumes after a call that succeeded and maps its output
\* without an error.
StepOutputStored ==
    /\ pc = "called"
    /\ mode = "sequence"
    /\ Tag(call.result) = "result"
    /\ pc' = "seq"

C15_TransformTouchesOnlyItsKeys ==
    [][AtTransformStep =>
          LET mapping == currentStep.inputMapping
          IN /\ calls' = calls
             /\ metrics' = metrics
             /\ pc' \in {"seq", "loop"}
             /\ \A k \in (Keys(sequenceContext) \cup Keys(sequenceContext'))
                             \ Keys(mapping) :
                    Get(sequenceContext', k) = Get(sequenceContext, k)
             /\ (Len(mapping) > 0 /\ Tag(mapping[1][2]) = "path") =>
                    Get(sequenceContext', mapping[1][1])
                        = JSONPath(mapping[1][2][2], Obj(sequenceContext),
                                   currentStep.jsonPathArgs.wrap)]_vars

\* The transform after one recorded call has unwrapped u and a; the call log
\* and the metrics are those of the one call.
C15_Witness ==
    /\ pc = "seq"
    /\ config.sequence = <<StepUser, StepUnwrap, StepNested, StepB>>
    /\ stepIdx = 3
    /\ i = 0
    /\ Get(sequenceContext, "u") = UserRecord
    /\ Get(sequenceContext, "a") = Num(5)
    /\ Len(calls) = 1
    /\ metrics.total = 1

\* executeSequence is at the second of two identical consecutive
\* context-transform steps: the store is as the first run left it.
AtRepeatedTransformStep ==
    /\ AtTransformStep
    /\ stepIdx > 1
    /\ config.sequence[stepIdx - 1] = currentStep

\* C16: a context-transform step that maps { x: '$.a' } against a context
\* whose a is 5 leaves x = 5, and running an identical transform step a
\* second time leaves the context store as the first run left it.
C16_TransformRoundTrip ==
    [][/\ (AtTransformStep
              /\ currentStep.inputMapping = << <<"x", PathExpr(<<Key("a")>>)>> >>
              /\ Get(sequenceContext, "a") = Num(5))
          => Get(sequenceContext', "x") = Num(5)
       /\ AtRepeatedTransformStep => sequenceContext' = sequenceContext]_vars

\* C17: a nested inputMapping resolves every leaf against the same context
\* and assembles an object of the mapping's shape:
\* { user: { id: '$.u.id', email: '$.u.email' } } against a context whose u
\* is { id: 1, email: 'a@b.com' } sends user = { id: 1, email: 'a@b.com' }.
C17_NestedMappingResolvesLeaves ==
    [][(StepCallSent
           /\ currentStep = StepNested
           /\ Get(sequenceContext, "u") = UserRecord)
          => Get(SentArguments, "user") = UserRecord]_vars

\* A step has a mapping value that is neither a string nor an object.
HasInvalidMappingValue(step) ==
    \/ \E n \in 1..Len(step.inputMapping) : step.inputMapping[n][2] = NotAMapping
    \/ \E n \in 1..Len(step.outputMapping) : step.outputMapping[n][2] = NotAMapping

\* C18: a step with a mapping value that is neither a string nor a map fails
\* before any tool invocation: when the engine reaches such a step (its tool
\* known) it sends no request, records no metrics and raises to runLoadTest.
C18_InvalidMappingFailsBeforeCall ==
    [][(/\ pc = "seq"
        /\ stepIdx <= Len(config.sequence)
        /\ HasInvalidMappingValue(currentStep)
        /\ (IsToolCallStep(currentStep) => HasTool(currentStep.toolName)))
          => /\ calls' = calls
             /\ metrics' = metrics
             /\ IterationRaised]_vars

\* The requests the tool channel has not answered yet.
InFlight == {n \in 1..Len(calls) : calls[n].outcome = Pending}

\* C19: at most one tool invocation is in flight at any time, and nothing
\* begins before the previous call has fully resolved: a request is sent only
\* when no request is awaited and every earlier one is recorded; while a
\* request is awaited or its inter-call delay runs, no step, tool or
\* iteration is started and the context store is not written; a configured
\* delay follows every call before its caller resumes.  In all three modes.
C19_OneCallAtATime ==
    /\ [](/\ Cardinality(InFlight) <= 1
          /\ InFlight # {} => (pc = "inflight" /\ InFlight = {Len(calls)})
          /\ pc = "inflight" => InFlight # {})
    /\ [][/\ Len(calls') > Len(calls) =>
                 /\ InFlight = {}
                 /\ metrics.total = Len(calls)
                 /\ pc \in {"seq", "all", "loop"}
          /\ pc \in {"inflight", "delay"} =>
                 /\ stepIdx' = stepIdx
                 /\ toolIdx' = toolIdx
                 /\ i' = i
                 /\ sequenceContext' = sequenceContext
                 /\ Len(calls') = Len(calls)
          /\ (pc = "inflight" /\ config.delayBetweenCalls # 0) => pc' = "delay"
          /\ pc = "delay" =>
                 /\ pc' = "called"
                 /\ metrics' = metrics
                 /\ calls' = calls]_vars

\* The delay after the second call of a run-all iteration is running.
C19_Witness ==
    /\ pc = "delay"
    /\ mode = "runAll"
    /\ Len(calls) = 2
    /\ metrics.total = 2
    /\ InFlight = {}

\* The error callTool records for an answer of the channel.
ErrorOfOutcome(outcome) ==
    IF Tag(outcome) = "throws" THEN Error(outcome[2])
    ELSE IF outcome[2] THEN Error(outcome[3][1])
    ELSE Null

\* The tool-call steps of the current executeSequence that have completed.
CompletedSteps ==
    IF mode = "sequence" /\ pc \in {"seq", "inflight", "delay", "called"}
    THEN {k \in 1..(stepIdx - 1) :
              /\ k <= Len(config.sequence)
              /\ IsToolCallStep(config.sequence[k])
              /\ HasTool(config.sequence[k].toolName)}
    ELSE {}

\* C20: call records and context writes are applied in step and iteration
\* order: the n-th entry of the call-record log is the record of the n-th
\* request sent, and while a step of a sequence builds its arguments, is
\* awaited or stores its output, the context store has the keys of the
\* output mapping of every completed earlier step of the iteration.
C20_StrictOrder ==
    /\ Len(metrics.details) <= Len(calls)
    /\ \A n \in 1..Len(metrics.details) :
           metrics.details[n].error = ErrorOfOutcome(calls[n].outcome)
    /\ \A k \in CompletedSteps :
           Keys(config.sequence[k].outputMapping) \subseteq Keys(sequenceContext)

\* In the second iteration the third step is awaited with the id the first
\* step of this iteration stored, after a first iteration whose first call
\* was rejected: the log starts with that rejection and ends with a success.
C20_Witness ==
    /\ pc = "inflight"
    /\ i = 1
    /\ config.sequence = <<StepA, StepUnknown, StepB>>
    /\ stepIdx = 3
    /\ Get(call.params, "id") = Arr(<<Num(1)>>)
    /\ Len(metrics.details) = 3
    /\ metrics.details[1].error = Error("down")
    /\ metrics.details[3].error = Null

\* The run was configured with a delay between calls.
DelayConfigured == config.delayBetweenCalls > 0

\* C21: with a positive delayBetweenCalls the delay follows every call,
\* failed or not, the last one of the run included: outside the delay
\* itself the clock has moved by the latency and the delay of every call
\* recorded so far (and during the delay by all but the last delay), a
\* request is awaited only when every earlier call is recorded, and no
\* request is sent while a call is awaited or its delay is running.
C21_DelayAfterEveryCall ==
    DelayConfigured =>
        /\ pc = "delay" =>
               now = metrics.total * latency
                       + (metrics.total - 1) * config.delayBetweenCalls
        /\ pc # "delay" =>
               now = metrics.total * (latency + config.delayBetweenCalls)
        /\ pc = "inflight" => metrics.total = Len(calls) - 1
        /\ pc \in {"delay", "called", "returned"} => metrics.total = Len(calls)

\* A run of two calls with a delay of 10 ms has returned: the first call
\* succeeded, the last one was rejected, and both delays have elapsed.
C21_Witness ==
    /\ pc = "returned"
    /\ config.delayBetweenCalls = 10
    /\ Len(calls) = 2
    /\ Tag(calls[1].outcome) = "result" /\ ~calls[1].outcome[2]
    /\ Tag(calls[2].outcome) = "throws"
    /\ now = 2 * latency + 20

-----------------------------------------------------------------------------
(* Properties of the metrics summary.                                      *)

\* getSummary has returned, and record has not been called since.
SummaryIsCurrent == summary # NoSummary /\ summary.total = metrics.total

\* The statistics of a list of durations, as the specification words them.
MeanOf(ds) == IF ds = <<>> THEN Rat(0, 1) ELSE Rat(Sum(ds), Len(ds))

MedianOf(ds) ==
    LET asc == sorted(ds)
        n == Len(ds)
    IN IF n = 0 THEN Rat(0, 1)
       ELSE IF n % 2 = 1 THEN Rat(asc[(n + 1) \div 2], 1)
       ELSE Rat(asc[n \div 2] + asc[(n \div 2) + 1], 2)

P95Of(ds) ==
    IF ds = <<>> THEN Rat(0, 1) ELSE Rat(sorted(ds)[Ceil95(Len(ds))], 1)

\* C22: the summary's avg is the arithmetic mean of all durations passed to
\* record, and 0 if there were none: every recorded duration enters the
\* global statistics.
C22_AvgIsMeanOfRecorded ==
    SummaryIsCurrent => summary.avg = MeanOf(RecordedDurations(metrics))

\* C23: the summary's median is taken on the ascending sort of all recorded
\* durations: the central element of an odd count, the mean of the two
\* central elements of an even count, 0 when nothing was recorded.
C23_MedianOfSortedDurations ==
    SummaryIsCurrent => summary.median = MedianOf(RecordedDurations(metrics))

\* C24: the summary's p95 is the element at index ceil(0.95 * n) - 1 of the
\* ascending sort of the n recorded durations, an index within 0..n-1 for
\* every n >= 1, and 0 when n = 0.
C24_P95OfSortedDurations ==
    SummaryIsCurrent =>
        LET n == Len(RecordedDurations(metrics))
        IN /\ n >= 1 => Ceil95(n) - 1 \in 0..(n - 1)
           /\ summary.p95 = P95Of(RecordedDurations(metrics))

\* The orders in which n durations can be recorded.
Perms(n) == {p \in [1..n -> 1..n] : \A a, b \in 1..n : p[a] = p[b] => a = b}

\* The metrics state after recording the durations ds, in that order.
RECURSIVE Replay(_)
Replay(ds) ==
    IF ds = <<>> THEN MetricsInit
    ELSE record(Replay(SubSeq(ds, 1, Len(ds) - 1)), "a", TRUE, ds[Len(ds)],
                Null, Null, <<>>)

AccumulatedFields ==
    {"total", "success", "failure", "avg", "median", "p95", "errors", "perTool",
     "details"}

FailedWith(msg) ==
    {n \in 1..Len(calls) :
        /\ calls[n].outcome # Pending
        /\ ErrorOfOutcome(calls[n].outcome) = Error(msg)}

RECURSIVE TallySum(_, _)
TallySum(errors, msgs) ==
    IF msgs = {} THEN 0
    ELSE LET msg == CHOOSE x \in msgs : TRUE
         IN errors[msg] + TallySum(errors, msgs \ {msg})

RECURSIVE PerToolSum(_, _, _)
PerToolSum(perTool, field, ts) ==
    IF ts = {} THEN 0
    ELSE LET tool == CHOOSE x \in ts : TRUE
         IN perTool[tool][field] + PerToolSum(perTool, field, ts \ {tool})

\* C28: for every tool name, perTool[t].total is the number of record calls
\* made with that name (one per answered request) and equals success +
\* failure of the tool; over all tools the totals, successes and failures
\* add up to the global ones; the summary reports these counts.
C28_PerToolAddsUp ==
    /\ \A t \in DOMAIN metrics.perTool :
           /\ metrics.perTool[t].total
                  = Cardinality(Requests(t)) - AwaitedFor(t)
           /\ metrics.perTool[t].total
                  = metrics.perTool[t].success + metrics.perTool[t].failure
    /\ \A field \in {"total", "success", "failure"} :
           PerToolSum(metrics.perTool, field, DOMAIN metrics.perTool) = metrics[field]
    /\ summary # NoSummary =>
           /\ DOMAIN summary.perTool = DOMAIN metrics.perTool
           /\ \A t \in DOMAIN summary.perTool :
                  \A field \in {"total", "success", "failure"} :
                      summary.perTool[t][field] = metrics.perTool[t][field]

\* The summary of a run that called two tools: one of them twice, with a
\* failure, the other with a success.
C28_Witness ==
    /\ pc = "returned"
    /\ summary # NoSummary
    /\ DOMAIN summary.perTool = {"a", "b"}
    /\ summary.perTool["a"].total = 2
    /\ summary.perTool["a"].failure >= 1
    /\ summary.perTool["b"].success >= 1

\* The names of the tools a server may list.
ServerToolNames == {ToolA.name, ToolB.name}

\* A tool-call step of the sequence names a tool that is not in toolNames.
AtStepOutsideToolNames ==
    /\ config.hasToolNames
    /\ pc = "seq"
    /\ stepIdx <= Len(config.sequence)
    /\ IsToolCallStep(currentStep)
    /\ currentStep.toolName \notin config.toolNames

\* C29: with toolNames configured the client works on that subset only: in
\* every mode the tools it keeps and every request it sends name a tool that
\* the server lists and toolNames contains, and a sequence step that names a
\* tool outside the subset is skipped like an unknown tool, with no request.
C29_OnlyConfiguredTools ==
    /\ [](config.hasToolNames =>
            /\ \A n \in 1..Len(tools) :
                   tools[n].name \in config.toolNames \cap ServerToolNames
            /\ \A n \in 1..Len(calls) :
                   /\ calls[n].name \in config.toolNames \cap ServerToolNames
                   /\ HasTool(calls[n].name))
    /\ [][AtStepOutsideToolNames =>
             /\ pc' = "seq"
             /\ stepIdx' = stepIdx + 1
             /\ calls' = calls
             /\ metrics' = metrics]_vars

\* A run of two iterations of a sequence that calls "a" and then "b", with
\* toolNames = ["a"], has returned: only "a" was ever called.
C29_Witness ==
    /\ pc = "returned"
    /\ config.hasToolNames
    /\ config.toolNames = {"a"}
    /\ config.sequence = <<StepAText, StepB>>
    /\ config.hasSequence
    /\ CallNames = <<"a", "a">>

\* The run is in run-all mode: no sequence is configured and runAll is set.
RunAllMode == ~config.hasSequence /\ config.runAll

\* C30: in run-all mode every iteration calls each available tool once, in
\* the order of the tool list, whether or not a call fails: the n-th request
\* of the run names the tool at position n modulo the list, within an
\* iteration the requests sent so far are those of the earlier iterations
\* and of the earlier tools, no iteration is cut short, and after the run
\* total is numCalls times the number of available tools.
C30_RunAllCallsEveryTool ==
    RunAllMode =>
        /\ \A n \in 1..Len(calls) :
               calls[n].name = tools[((n - 1) % Len(tools)) + 1].name
        /\ pc = "all" => Len(calls) = i * Len(tools) + toolIdx - 1
        /\ console.failed = <<>>
        /\ (pc = "returned" /\ Len(tools) > 0) =>
               /\ metrics.total = config.numCalls * Len(tools)
               /\ Len(calls) = config.numCalls * Len(tools)

\* Two iterations over two tools have returned after four calls, the first
\* of which was rejected.
C30_Witness ==
    /\ pc = "returned"
    /\ RunAllMode
    /\ config.numCalls = 2
    /\ CallNames = <<"a", "b", "a", "b">>
    /\ Tag(calls[1].outcome) = "throws"
    /\ metrics.total = 4

-----------------------------------------------------------------------------
(* Properties of main and of connectToServer.                              *)

\* C38: main calls cleanup exactly once after the connection attempt,
\* whether connectToServer raised or runLoadTest returned: no cleanup before
\* the try block is left, one from then on, and it does follow; and when
\* connectToServer raised, runLoadTest is not started: nothing is sent,
\* recorded or summarised.
C38_CleanupExactlyOnce ==
    /\ [](main.cleanups = IF pc = "exited" THEN 1 ELSE 0)
    /\ [](main.raised # Null =>
            /\ pc \in {"connectFailed", "exited"}
            /\ mode = "none"
            /\ calls = <<>>
            /\ metrics = MetricsInit
            /\ console = [failed |-> <<>>, summaries |-> 0])
    /\ (pc = "connectFailed" ~> main.cleanups = 1)
    /\ (pc = "returned" ~> main.cleanups = 1)

\* main has ended after a run with a failed call and its summary: cleanup
\* was called once and nothing was raised.
C38_Witness ==
    /\ pc = "exited"
    /\ main = [raised |-> Null, cleanups |-> 1]
    /\ console.summaries = 1
    /\ metrics.failure >= 1

\* C39: connectToServer raises or leaves a non-empty tool set: a failed
\* connection or listing is rethrown, an empty (or emptied by toolNames)
\* tool list raises 'No matching tools found', and a runLoadTest started
\* after connectToServer returned has tools and enters its loop.
C39_ConnectRaisesOrLeavesTools ==
    /\ [](pc = "connectFailed" =>
            /\ main.raised \in {Error("connect"), Error("No matching tools found")}
            /\ Len(tools) = 0)
    /\ [](pc \in {"connected", "loop", "seq", "all", "inflight", "delay", "called",
                  "returned"} =>
            /\ main.raised = Null
            /\ Len(tools) > 0)
    /\ [][pc = "constructed" =>
             /\ pc' \in {"connected", "connectFailed"}
             /\ pc' = "connected" <=> Len(tools') > 0
             /\ pc' = "connected" <=> main'.raised = Null]_vars
    /\ [][pc = "connected" => pc' = "loop"]_vars

\* With toolNames configured, connectToServer raised 'No matching tools
\* found' and main has ended.
C39_Witness ==
    /\ pc = "exited"
    /\ config.hasToolNames
    /\ main.raised = Error("No matching tools found")
    /\ tools = <<>>

-----------------------------------------------------------------------------
(* Properties of argument building and of the store under failures.        *)

\* The keys that staticInputs gives an object and inputMapping a nested map.
StaticAndNestedKeys(step) ==
    {k \in Keys(step.staticInputs) \cap Keys(step.inputMapping) :
        /\ IsObj(Get(step.staticInputs, k))
        /\ Tag(Get(step.inputMapping, k)) = "map"}

\* C31: a mapped value overwrites only the key it targets, not the object
\* around it: where staticInputs gives key k an object and inputMapping gives
\* k a nested map, the sub-keys of the static object that the nested map does
\* not name are still in the argument object sent, with their static values.
C31_NestedMapKeepsStaticSubKeys ==
    [][StepCallSent =>
          \A k \in StaticAndNestedKeys(currentStep) :
              LET static == Get(currentStep.staticInputs, k)[2]
                  nested == Get(currentStep.inputMapping, k)[2]
              IN /\ IsObj(Get(SentArguments, k))
                 /\ \A sub \in Keys(static) \ Keys(nested) :
                        /\ HasKey(Get(SentArguments, k)[2], sub)
                        /\ Get(Get(SentArguments, k)[2], sub) = Get(static, sub)]_vars

BadStringKeys(mapping) ==
    {mapping[n][1] : n \in {m \in 1..Len(mapping) : Tag(mapping[m][2]) = "badstr"}}

\* C33: a mapping string that does not start with '$' is a configuration
\* error and never a value: a step with such an inputMapping raises to
\* runLoadTest when it is reached, before any request; a step with such an
\* outputMapping raises after its call without writing that key; and no
\* request carries the string.
C33_NonPathStringIsRejected ==
    /\ [][(/\ pc = "seq"
           /\ stepIdx <= Len(config.sequence)
           /\ BadStringKeys(currentStep.inputMapping) # {}
           /\ (IsToolCallStep(currentStep) => HasTool(currentStep.toolName)))
             => /\ IterationRaised
                /\ calls' = calls
                /\ metrics' = metrics]_vars
    /\ [][(/\ pc = "called"
           /\ mode = "sequence"
           /\ BadStringKeys(currentStep.outputMapping) # {})
             => /\ IterationRaised
                /\ \A k \in BadStringKeys(currentStep.outputMapping) :
                       /\ HasKey(sequenceContext', k) = HasKey(sequenceContext, k)
                       /\ Get(sequenceContext', k) = Get(sequenceContext, k)]_vars
    /\ [](\A n \in 1..Len(calls) : \A m \in 1..Len(calls[n].arguments) :
              Tag(calls[n].arguments[m][2]) # "badstr")

\* Both iterations of the sequence whose first step has { r: '$', w: 'a' } as
\* outputMapping were aborted after the call of that step: r was written, w
\* was not, and the second step was never called.
C33_Witness ==
    /\ pc = "returned"
    /\ config.sequence = <<StepBadOutput, StepAPlain>>
    /\ console.failed = <<1, 2>>
    /\ Len(calls) = 2
    /\ HasKey(sequenceContext, "r")
    /\ ~HasKey(sequenceContext, "w")

\* C34 as stated: when a sequence is aborted by an error the partial context
\* store is discarded: what the completed steps wrote is not there
\* afterwards, for the caller or for the next iteration.
C34_FailedSequenceDiscardsStore ==
    [][(mode = "sequence" /\ IterationRaised) => sequenceContext' = <<>>]_vars

\* The keys the mappings of a step may write.
WrittenKeys(step) ==
    IF IsToolCallStep(step) THEN Keys(step.outputMapping) ELSE Keys(step.inputMapping)

\* C34: when a sequence is aborted by an error the context store is kept:
\* every key is still there, with its value unless the failing step's own
\* mapping wrote it before the error, and the next iteration starts with
\* that store.
C34_FailedSequenceKeepsStore ==
    /\ [][(mode = "sequence" /\ IterationRaised) =>
             /\ Keys(sequenceContext) \subseteq Keys(sequenceContext')
             /\ \A k \in Keys(sequenceContext) \ WrittenKeys(currentStep) :
                    Get(sequenceContext', k) = Get(sequenceContext, k)]_vars
    /\ [][pc = "loop" => sequenceContext' = sequenceContext]_vars

\* The second iteration starts after the first one was aborted at its second
\* step: the store has what the first step wrote.
C34_Witness ==
    /\ AtSequenceStart
    /\ i = 1
    /\ console.failed = <<1>>
    /\ config.sequence = <<StepUser, StepNotAMapping, StepUser>>
    /\ Get(sequenceContext, "u") = Arr(<<UserRecord>>)
    /\ Get(sequenceContext, "a") = Arr(<<Num(5)>>)

\* A transform step with the mapping { a: '$.u', u: '$.a' } is reached with
\* the user record under u and 5 under a.
AtSwapStep ==
    /\ AtTransformStep
    /\ currentStep.inputMapping = StepSwap.inputMapping
    /\ Get(sequenceContext, "u") = UserRecord
    /\ Get(sequenceContext, "a") = Num(5)

\* C37: the entries of a context-transform mapping are applied in order
\* against the live store, each reading what the earlier ones wrote: the
\* mapping { a: '$.u', u: '$.a' } does not exchange a and u, it leaves both
\* with the old value of u.
C37_TransformReadsLiveStore ==
    [][AtSwapStep =>
          /\ Get(sequenceContext', "a") = Get(sequenceContext, "u")
          /\ Get(sequenceContext', "u") = Get(sequenceContext, "u")]_vars

-----------------------------------------------------------------------------
(* Properties of the metrics state.                                        *)

\* C35: getSummary leaves the metrics state as it was: total, success,
\* failure, the response times in their order, errors, perTool and details
\* are the same after a call that returned a new summary as before it.
C35_SummaryLeavesStateUnchanged ==
    [][summary' # summary =>
          /\ metrics' = metrics
          /\ \A tool \in DOMAIN metrics.perTool :
                 metrics'.perTool[tool].responseTimes
                     = metrics.perTool[tool].responseTimes]_vars

\* A summary was taken of three records, two of them of tool a with the
\* durations 200 and 100 in that order, which is still their order.
C35_Witness ==
    /\ SummaryIsCurrent
    /\ metrics.total = 3
    /\ "a" \in DOMAIN metrics.perTool
    /\ metrics.perTool["a"].responseTimes = <<200, 100>>
    /\ summary.perTool["a"].avg = Rat(150, 1)

\* C36: total is success + failure and the call-record log has total
\* entries; a record call adds one to total and appends exactly one entry at
\* the end of the log, leaving the entries before it as they were; nothing
\* else changes the log.
C36_LogIsAppendOnly ==
    /\ [](/\ metrics.total = metrics.success + metrics.failure
          /\ Len(metrics.details) = metrics.total)
    /\ [][metrics'.total # metrics.total =>
             /\ metrics'.total = metrics.total + 1
             /\ Len(metrics'.details) = Len(metrics.details) + 1
             /\ SubSeq(metrics'.details, 1, Len(metrics.details)) = metrics.details]_vars
    /\ [][metrics'.total = metrics.total =>
             metrics'.details = metrics.details]_vars

\* Three records, the first a failure and the last a success, each with its
\* entry in the log in that order.
C36_Witness ==
    /\ metrics.total = 3
    /\ metrics.success = 2
    /\ metrics.failure = 1
    /\ Len(metrics.details) = 3
    /\ metrics.details[1].error = Error("boom")
    /\ metrics.details[3].error = Null

====
